---- MODULE Spec2Model ----
(***************************************************************************)
(* Model of the image-to-image retriever                                   *)
(* (src/mmcls/models/retriever/image2image.py): the lazily built prototype *)
(* database, its construction from a tensor, a file or a dataloader, the   *)
(* distributed sum reduction, and the predict / dump_prototype entry       *)
(* points.  A thread is one caller of one engine; an engine is the         *)
(* ImageToImageRetriever instance of one rank.  A second part models       *)
(* update_bn_stats and scaled_all_reduce of                                *)
(* src/mmcls/core/hook/precise_bn_hook.py, one call on every rank.         *)
(***************************************************************************)
EXTENDS Integers, Sequences, FiniteSets, TLC

----------------------------------------------------------------------------
(* Bounds of the model *)

\* largest corpus size N = len(data_loader.dataset)
MaxN == 2
\* largest batch size of the dataloader
MaxBatch == 2
\* largest embedding width the encoder produces
MaxWidth == 2
\* calls each caller makes
MaxCalls == 2
\* callers racing on one engine in the concurrent specification
MaxThreads == 2
\* ranks of the distributed specification
MaxWorld == 2
\* largest number of query items in one predict call
MaxQueries == 2
\* largest topk an engine is configured with (-1 is always included)
MaxTopk == 3
MaxLayers == 2
MaxLoaderLen == 2
MaxSamples == 4

----------------------------------------------------------------------------
(* Tensors.  An Optional value is <<>> (None) or <<v>>. *)

None == <<>>
Some(v) == <<v>>
IsNone(o) == o = <<>>
Val(o) == o[1]

Min(a, b) == IF a <= b THEN a ELSE b

\* A tensor of shape (n, dim) is [ndim |-> 2, n, dim, rows]; a tensor of shape
\* (dim,) is [ndim |-> 1, n |-> 1, dim, rows] with its values as the one row.

\* torch.zeros(num, dim)
ones(num, dim) ==
  [ndim |-> 2, n |-> num, dim |-> dim,
   rows |-> [i \in 1..num |-> [k \in 1..dim |-> 1]]]
zeros(num, dim) ==
  [ndim |-> 2, n |-> num, dim |-> dim,
   rows |-> [i \in 1..num |-> [k \in 1..dim |-> 0]]]

\* the encoder's output for the corpus item with identifier s, at width w:
\* an opaque, deterministic, nonzero vector, different for different items
extract_feat(s, w) == [k \in 1..w |-> 10 * (s + 1) + k]

\* self.prototype_vecs[sample_idx] = feat[i]  (torch index assignment: the
\* value is broadcast to the row, so a width-1 value fills a wider row)
SetRow(T, idx, v) ==
  IF idx >= T.n
  THEN [err |-> "IndexError", t |-> T]
  ELSE IF Len(v) = T.dim
  THEN [err |-> "", t |-> [T EXCEPT !.rows[idx + 1] = v]]
  ELSE IF Len(v) = 1
  THEN [err |-> "", t |-> [T EXCEPT !.rows[idx + 1] = [k \in 1..T.dim |-> v[1]]]]
  ELSE [err |-> "RuntimeError", t |-> T]

\* element-wise sum of two tensors of one shape
\* element-wise maximum of two tensors of one shape (ReduceOp.MAX)
TensorMax(A, B) ==
  [A EXCEPT !.rows = [i \in 1..A.n |-> [k \in 1..A.dim |->
                        IF A.rows[i][k] >= B.rows[i][k] THEN A.rows[i][k] ELSE B.rows[i][k]]]]

\* element-wise sum of two tensors of one shape (ReduceOp.SUM)
TensorAdd(A, B) ==
  [A EXCEPT !.rows = [i \in 1..A.n |-> [k \in 1..A.dim |-> A.rows[i][k] + B.rows[i][k]]]]

----------------------------------------------------------------------------
(* State *)

VARIABLES
  world_size,        \* get_dist_info()[1]
  eng,               \* the engine (rank) each caller thread works on
  prototype,         \* self.prototype of each engine: the configured source
  prototype_inited,  \* self.prototype_inited
  prototype_vecs,    \* self.prototype_vecs: None or the database tensor
  vecs_id,           \* identity of the tensor object prototype_vecs refers to
  row_writes,        \* per row: assignments by the build loop since allocation
  build_count,       \* corpus passes started on the engine
  encoder_calls,     \* encoder calls on corpus batches
  disk,              \* the file dump_prototype writes and a str source reads
  pc,                \* position of each caller
  call,              \* the entry point each caller is inside
  batch_idx,         \* position of each caller's dataloader iterator
  result,            \* how each caller's last call ended
  ncalls,            \* calls each caller has made
  barrier_gen,       \* dist.barrier() calls each rank has entered
  reduce_sent,       \* tensors each rank has handed to dist.all_reduce
  reduce_status,     \* outcome of each rank's finished reductions, in order
  topk,              \* self.topk of each engine
  similarity,        \* self.similarity of each engine
  sort_ties,         \* the order this build's torch.sort gives equal elements
  inputs_pool,       \* the predict arguments the callers have at hand
  args               \* the arguments of the predict call each caller is inside

\* update_bn_stats(model, loader, num_samples) on every rank
VARIABLES
  model,             \* the norm layers of each rank's model, in modules() order
  data_loader,       \* the batches each rank's dataloader yields (loader)
  batch_size,        \* loader.batch_size
  num_samples,       \* the num_samples argument
  hook_pc,           \* position of each rank inside update_bn_stats
  num_iter,          \* the local num_iter of each rank
  bn_layers,         \* the local bn_layers: positions in model
  running_means,     \* the local list running_means
  running_vars,      \* the local list running_vars
  momentums,         \* the local list momentums
  forwards,          \* model(**data) calls each rank has made
  reductions,        \* the tensor lists each rank has queued for all_reduce
  model_before       \* each rank's layers when update_bn_stats was called

retriever_vars ==
        <<world_size, eng, prototype, prototype_inited, prototype_vecs, vecs_id,
          row_writes, build_count, encoder_calls, disk, pc, call, batch_idx,
          result, ncalls, barrier_gen, reduce_sent, reduce_status, topk,
          similarity, sort_ties, inputs_pool, args>>

hook_vars == <<model, data_loader, batch_size, num_samples, hook_pc, num_iter, bn_layers,
               running_means, running_vars, momentums, forwards, reductions,
               model_before>>

vars == <<retriever_vars, hook_vars>>

engine_vars == <<prototype, prototype_inited, prototype_vecs, vecs_id, row_writes,
                 build_count, encoder_calls>>
dist_vars == <<barrier_gen, reduce_sent, reduce_status>>
config_vars == <<world_size, eng, topk, similarity, sort_ties, inputs_pool>>

Threads == DOMAIN eng
Ranks == 1..world_size

\* predict(inputs, data_samples): inputs is the sequence of the query items'
\* embeddings, samples is None or the caller's list of data samples
NoArgs == [inputs |-> <<>>, samples |-> None]

\* how a call ended; a predict call that returned keeps its arguments, the
\* list it returned and, when the caller's call before it was a predict call
\* with the same inputs, the list that call returned (prev)
NoResult ==
  [status |-> "none", exc |-> "", stage |-> "", args |-> NoArgs, out |-> <<>>,
   prev |-> None]
Ok ==
  [status |-> "ok", exc |-> "", stage |-> "", args |-> NoArgs, out |-> <<>>,
   prev |-> None]
Error(exc, stage) ==
  [status |-> "error", exc |-> exc, stage |-> stage, args |-> NoArgs, out |-> <<>>,
   prev |-> None]

\* the supported prototype kinds of __init__'s docstring, plus an absent
\* source (None) and a value of no supported type ("other")
Kinds == {"none", "tensor", "str", "dict", "loader", "other"}

----------------------------------------------------------------------------
(* matching: similarity of every query with every prototype, sorted *)

Abs(x) == IF x < 0 THEN 0 - x ELSE x

RECURSIVE GCD(_, _)
GCD(a, b) == IF b = 0 THEN a ELSE GCD(b, a % b)

\* a similarity value, held exactly as the fraction num / den in lowest terms
Score(num, den) ==
  LET g == GCD(Abs(num), den) IN [num |-> num \div g, den |-> den \div g]

\* a / b < c / d for b, d > 0, by the integer parts and then the reciprocals
\* of the remainders: no product is formed
RECURSIVE FracLess(_, _, _, _)
FracLess(a, b, c, d) ==
  IF a \div b # c \div d THEN a \div b < c \div d
  ELSE IF c % d = 0 THEN FALSE
  ELSE IF a % b = 0 THEN TRUE
  ELSE FracLess(d, c % d, b, a % b)

\* the largest operand whose products stay inside the machine integers
SmallOperand == 30000

ScoreLess(a, b) ==
  IF Abs(a.num) < SmallOperand /\ a.den < SmallOperand
       /\ Abs(b.num) < SmallOperand /\ b.den < SmallOperand
  THEN a.num * b.den < b.num * a.den
  ELSE FracLess(a.num, a.den, b.num, b.den)

RECURSIVE DotTo(_, _, _)
DotTo(u, v, k) == IF k = 0 THEN 0 ELSE DotTo(u, v, k - 1) + u[k] * v[k]
Dot(u, v) == DotTo(u, v, Len(u))

\* torch.cosine_similarity(a, b, dim=-1) of two vectors of one width.  The
\* cosine c is held as sign(c) * c^2, which is rational, orders as c does and
\* is 1, 0, -1 exactly when c is; a vector of norm 0 gives 0 (the eps clamp).
cosine_similarity_unnormalised(u, v) == Score(Dot(u, v), 1)
cosine_similarity(u, v) ==
  LET d == Dot(u, v)
      nn == Dot(u, u) * Dot(v, v)
  IN IF nn = 0 THEN Score(0, 1)
     ELSE Score(IF d < 0 THEN 0 - d * d ELSE d * d, nn)

\* what __init__ may be given as similarity_fn: the built-in name, a
\* callable, or a name that is not supported
SimilarityNames == {"cosine_similarity", "callable", "invalid"}

\* the similarity_fn property.  A callable is returned as it is; the one the
\* model configures is the inner product with the broadcasting of the
\* built-in, lambda a, b: (a.unsqueeze(1) * b.unsqueeze(0)).sum(-1).  The
\* last branch's message reads self.similarity_way, which does not exist.
similarity_fn(name) ==
  IF name = "callable" THEN [err |-> "", fn |-> "callable"]
  ELSE IF name = "cosine_similarity" THEN [err |-> "", fn |-> "cosine_similarity"]
  ELSE [err |-> "AttributeError", fn |-> ""]

\* broadcasting of the last dimension: a width-1 operand is repeated
Broadcastable(a, b) == a = b \/ a = 1 \/ b = 1
Expand(v, w) == IF Len(v) = w THEN v ELSE [k \in 1..w |-> v[1]]

\* one entry of the similarity matrix
Similarity(fn, q, p) ==
  LET w == IF Len(q) >= Len(p) THEN Len(q) ELSE Len(p)
  IN IF fn = "callable" THEN Score(Dot(Expand(q, w), Expand(p, w)), 1)
     ELSE cosine_similarity(Expand(q, w), Expand(p, w))

\* whether torch.sort puts the equal element at j before the one at i
Before_per_call(ties, j, i) == IF ncalls[1] % 2 = 1 THEN j < i ELSE j > i
Before(ties, j, i) == IF ties = "ascending" THEN j < i ELSE j > i

\* torch.sort(descending=True) puts element i of scores before element j
Precedes(scores, ties, i, j) ==
  \/ ScoreLess(scores[j], scores[i])
  \/ scores[j] = scores[i] /\ Before(ties, i, j)

\* the positions in rest, in the order torch.sort(descending=True) gives them
RECURSIVE SortFrom(_, _, _)
SortFrom(scores, ties, rest) ==
  IF rest = {} THEN <<>>
  ELSE LET first == CHOOSE i \in rest :
                      \A j \in rest \ {i} : Precedes(scores, ties, i, j)
       IN <<first>> \o SortFrom(scores, ties, rest \ {first})

\* torch.sort(scores, descending=True, dim=-1) of one row: (values, indices)
sort_ascending(scores, ties) ==
  LET perm == SortFrom(scores, ties, 1..Len(scores))
      n == Len(scores)
  IN [values |-> [p \in 1..n |-> scores[perm[n + 1 - p]]],
      indices |-> [p \in 1..n |-> perm[n + 1 - p] - 1]]
sort_descending(scores, ties) ==
  LET perm == SortFrom(scores, ties, 1..Len(scores))
  IN [values |-> [p \in 1..Len(scores) |-> scores[perm[p]]],
      indices |-> [p \in 1..Len(scores) |-> perm[p] - 1]]

\* the row of the similarity matrix for the query q, from column j on
RECURSIVE SimilarityRow(_, _, _, _)
SimilarityRow(fn, q, rows, j) ==
  IF j > Len(rows) THEN <<>>
  ELSE <<Similarity(fn, q, rows[j])>> \o SimilarityRow(fn, q, rows, j + 1)

\* the sorted rows of the similarity matrix, from row i on
RECURSIVE SortRows(_, _, _, _, _)
SortRows(fn, inputs, rows, ties, i) ==
  IF i > Len(inputs) THEN <<>>
  ELSE <<sort_descending(SimilarityRow(fn, inputs[i], rows, 1), ties)>>
       \o SortRows(fn, inputs, rows, ties, i + 1)

\* matching(inputs): for every query the prototypes' scores, best first, and
\* the prototypes' indices in that order
matching(inputs, vecs, name, ties) ==
  LET f == similarity_fn(name) IN
  IF f.err # "" THEN [err |-> f.err, stage |-> "similarity", sorted |-> <<>>]
  ELSE IF IsNone(vecs) THEN [err |-> "AttributeError", stage |-> "match", sorted |-> <<>>]
  ELSE LET T == Val(vecs) IN
       IF \E i \in 1..Len(inputs) : ~Broadcastable(Len(inputs[i]), T.dim)
       THEN [err |-> "RuntimeError", stage |-> "match", sorted |-> <<>>]
       ELSE [err |-> "", stage |-> "",
             sorted |-> SortRows(f.fn, inputs, T.rows, ties, 1)]

\* predict's loops over the results: the caller's data samples are filled in
\* place, in the order zip pairs them; without data samples one new sample
\* is made per row of the result
fill_samples_last(samples, sorted) ==
  IF IsNone(samples)
  THEN [i \in 1..Len(sorted) |->
          [gt |-> 0, score |-> sorted[Len(sorted)].values,
           label |-> sorted[Len(sorted)].indices]]
  ELSE [i \in 1..Len(Val(samples)) |->
          IF i <= Len(sorted)
          THEN [Val(samples)[i] EXCEPT !.score = sorted[Len(sorted)].values,
                                       !.label = sorted[Len(sorted)].indices]
          ELSE Val(samples)[i]]
fill_samples(samples, sorted) ==
  IF IsNone(samples)
  THEN [i \in 1..Len(sorted) |->
          [gt |-> 0, score |-> sorted[i].values, label |-> sorted[i].indices]]
  ELSE [i \in 1..Len(Val(samples)) |->
          IF i <= Len(sorted)
          THEN [Val(samples)[i] EXCEPT !.score = sorted[i].values,
                                       !.label = sorted[i].indices]
          ELSE Val(samples)[i]]

\* the Python slice s[:k]
Slice(s, k) == SubSeq(s, 1, IF k >= 0 THEN Min(k, Len(s)) ELSE Len(s) + k)

\* post_process(data_samples)
post_process_no_sentinel(k0, samples) ==
  IF Len(samples) = 0 THEN [err |-> "IndexError", out |-> <<>>]
  ELSE LET k == Min(k0, Len(samples[1].score))
       IN [err |-> "",
           out |-> [i \in 1..Len(samples) |->
                      [samples[i] EXCEPT !.score = Slice(@, k), !.label = Slice(@, k)]]]
post_process(k0, samples) ==
  IF k0 = -1 THEN [err |-> "", out |-> samples]
  ELSE IF Len(samples) = 0 THEN [err |-> "IndexError", out |-> <<>>]
  ELSE LET k == Min(k0, Len(samples[1].score))
       IN [err |-> "",
           out |-> [i \in 1..Len(samples) |->
                      [samples[i] EXCEPT !.score = Slice(@, k), !.label = Slice(@, k)]]]

\* predict from "feats = self.extract_feat(inputs)" on, as a function of the
\* engine's state
predict_tail(a, vecs, name, ties, k0) ==
  LET r == matching(a.inputs, vecs, name, ties) IN
  IF r.err # "" THEN [err |-> r.err, stage |-> r.stage, out |-> <<>>]
  ELSE LET pp == post_process(k0, fill_samples(a.samples, r.sorted))
       IN [err |-> pp.err, stage |-> "post_process", out |-> pp.out]

----------------------------------------------------------------------------
(* torch.save / torch.load of the database *)

RECURSIVE Flatten(_, _)
Flatten(rows, i) == IF i > Len(rows) THEN <<>> ELSE rows[i] \o Flatten(rows, i + 1)

\* torch.save(obj, path): the shape and the storage, row after row
torch_save(obj) ==
  IF IsNone(obj) THEN [pickled |-> "None", shape |-> <<>>, storage |-> <<>>]
  ELSE LET T == Val(obj)
       IN [pickled |-> "Tensor",
           shape |-> IF T.ndim = 1 THEN <<T.dim>> ELSE <<T.n, T.dim>>,
           storage |-> Flatten(T.rows, 1)]

\* torch.load(path)
torch_load_column_major(file) ==
  IF file.pickled = "None" THEN None
  ELSE LET nd == Len(file.shape)
           n == IF nd = 1 THEN 1 ELSE file.shape[1]
           w == file.shape[nd]
       IN Some([ndim |-> nd, n |-> n, dim |-> w,
                rows |-> [i \in 1..n |->
                            [k \in 1..w |-> file.storage[(k - 1) * n + i]]]])
torch_load(file) ==
  IF file.pickled = "None" THEN None
  ELSE LET nd == Len(file.shape)
           n == IF nd = 1 THEN 1 ELSE file.shape[1]
           w == file.shape[nd]
       IN Some([ndim |-> nd, n |-> n, dim |-> w,
                rows |-> [i \in 1..n |->
                            [k \in 1..w |-> file.storage[(i - 1) * w + k]]]])

----------------------------------------------------------------------------
(* The build loop of _get_prototype_from_dataloader *)

\* batch_num = len(data_batch['inputs'])
batch_num_short(batch) == Len(batch.ids) - 1
batch_num(batch) == Len(batch.ids)

\* for i in range(batch_num): self.prototype_vecs[sample_idx] = feat[i]
RECURSIVE WriteRows(_, _, _, _)
WriteRows(T, W, batch, i) ==
  IF i > batch_num(batch)
  THEN [err |-> "", t |-> T, w |-> W]
  ELSE LET idx == batch.ids[i]
           r == SetRow(T, idx, extract_feat(idx, batch.w))
       IN IF r.err # ""
          THEN [err |-> r.err, t |-> T, w |-> W]
          ELSE WriteRows(r.t, [W EXCEPT ![idx + 1] = @ + 1], batch, i + 1)

\* one iteration of the loop over the dataloader: encode the batch, allocate
\* the database on the first batch, write the batch's rows
loop_body(vecs, writes, batch, num) ==
  LET fresh == IsNone(vecs)
      T0 == IF fresh THEN zeros(num, batch.w) ELSE Val(vecs)
      W0 == IF fresh THEN [i \in 1..num |-> 0] ELSE writes
      r == WriteRows(T0, W0, batch, 1)
  IN [err |-> r.err, t |-> r.t, w |-> r.w, fresh |-> fresh]

\* the whole loop, as one worker runs it over a sequence of batches
RECURSIVE build_from(_, _, _, _, _)
build_from(vecs, writes, batches, b, num) ==
  IF b > Len(batches)
  THEN [err |-> "", vecs |-> vecs, w |-> writes]
  ELSE LET r == loop_body(vecs, writes, batches[b], num)
       IN IF r.err # ""
          THEN [err |-> r.err, vecs |-> Some(r.t), w |-> r.w]
          ELSE build_from(Some(r.t), r.w, batches, b + 1, num)

----------------------------------------------------------------------------
(* Callers.  A step of thread t updates t's own position and result. *)

Goto(t, where) ==
  /\ pc' = [pc EXCEPT ![t] = where]
  /\ UNCHANGED <<call, result, args>>

\* the call returns normally
Return(t) ==
  /\ pc' = [pc EXCEPT ![t] = "idle"]
  /\ call' = [call EXCEPT ![t] = "none"]
  /\ result' = [result EXCEPT ![t] = Ok]
  /\ args' = [args EXCEPT ![t] = NoArgs]

\* predict returns the list out
ReturnList(t, out) ==
  /\ pc' = [pc EXCEPT ![t] = "idle"]
  /\ call' = [call EXCEPT ![t] = "none"]
  /\ result' = [result EXCEPT ![t] =
                  [Ok EXCEPT !.args = args[t], !.out = out,
                             !.prev = IF /\ result[t].status = "ok"
                                         /\ result[t].args # NoArgs
                                         /\ result[t].args.inputs = args[t].inputs
                                      THEN Some(result[t].out) ELSE None]]
  /\ args' = [args EXCEPT ![t] = NoArgs]

\* an exception leaves the call: nothing in the retriever catches any
Raise(t, exc, stage) ==
  /\ pc' = [pc EXCEPT ![t] = "idle"]
  /\ call' = [call EXCEPT ![t] = "none"]
  /\ result' = [result EXCEPT ![t] = Error(exc, stage)]
  /\ args' = [args EXCEPT ![t] = NoArgs]

\* "if not self.prototype_inited:" of predict and dump_prototype
needs_build_always(e) == TRUE
needs_build(e) == ~prototype_inited[e]

Enter(t, name, where) ==
  /\ pc[t] = "idle"
  /\ ncalls[t] < MaxCalls
  /\ ncalls' = [ncalls EXCEPT ![t] = @ + 1]
  /\ call' = [call EXCEPT ![t] = name]
  /\ pc' = [pc EXCEPT ![t] = where]
  /\ UNCHANGED <<result, batch_idx, disk, engine_vars, dist_vars, config_vars, hook_vars>>

\* predict, up to "if not self.prototype_inited: self.prepare_prototype()"
predict(t) ==
  /\ Enter(t, "predict", IF needs_build(eng[t]) THEN "prepare" ELSE "feat")
  /\ \E a \in inputs_pool : args' = [args EXCEPT ![t] = a]

\* dump_prototype, up to the same test
dump_prototype(t) ==
  /\ Enter(t, "dump_prototype", IF needs_build(eng[t]) THEN "prepare" ELSE "save")
  /\ UNCHANGED args

\* a caller asks for a (re)build itself
call_prepare_prototype(t) ==
  /\ Enter(t, "prepare_prototype", "prepare")
  /\ UNCHANGED args

\* prepare_prototype, the dispatch on the type of self.prototype
prepare_prototype(t) ==
  LET e == eng[t]
      kind == prototype[e].kind
  IN
  /\ pc[t] = "prepare"
  /\ IF kind = "tensor"
     THEN /\ prototype_vecs' = [prototype_vecs EXCEPT ![e] = prototype[e].tensor]
          /\ vecs_id' = [vecs_id EXCEPT ![e] = @ + 1]
          /\ Goto(t, "inited")
          /\ UNCHANGED prototype
     ELSE IF kind = "str"
     THEN IF IsNone(disk)
          THEN /\ Raise(t, "FileNotFoundError", "build")
               /\ UNCHANGED <<prototype_vecs, vecs_id, prototype>>
          ELSE IF IsNone(torch_load(Val(disk)))
          THEN /\ Raise(t, "AttributeError", "build")
               /\ UNCHANGED <<prototype_vecs, vecs_id, prototype>>
          ELSE /\ prototype_vecs' = [prototype_vecs EXCEPT ![e] = torch_load(Val(disk))]
               /\ vecs_id' = [vecs_id EXCEPT ![e] = @ + 1]
               /\ Goto(t, "inited")
               /\ UNCHANGED prototype
     ELSE IF kind = "dict"
     THEN /\ prototype' = [prototype EXCEPT ![e].kind = "loader"]
          /\ Goto(t, "loader")
          /\ UNCHANGED <<prototype_vecs, vecs_id>>
     ELSE IF kind = "loader"
     THEN /\ Goto(t, "loader")
          /\ UNCHANGED <<prototype_vecs, vecs_id, prototype>>
     ELSE /\ Goto(t, "inited")
          /\ UNCHANGED <<prototype_vecs, vecs_id, prototype>>
  /\ UNCHANGED <<prototype_inited, row_writes, build_count, encoder_calls,
                 disk, batch_idx, ncalls, dist_vars, config_vars, hook_vars>>

\* _get_prototype_from_dataloader, up to the loop: self.prototype_vecs = None
get_prototype_from_dataloader(t) ==
  LET e == eng[t] IN
  /\ pc[t] = "loader"
  /\ prototype_vecs' = [prototype_vecs EXCEPT ![e] = None]
  /\ row_writes' = [row_writes EXCEPT ![e] = <<>>]
  /\ build_count' = [build_count EXCEPT ![e] = @ + 1]
  /\ batch_idx' = [batch_idx EXCEPT ![t] = 1]
  /\ Goto(t, "loop")
  /\ UNCHANGED <<prototype, prototype_inited, vecs_id, encoder_calls, disk, ncalls,
                 dist_vars, config_vars, hook_vars>>

\* one pass of "for data_batch in data_loader"
loader_batch(t) ==
  LET e == eng[t]
      batches == prototype[e].loader
  IN
  /\ pc[t] = "loop"
  /\ batch_idx[t] <= Len(batches)
  /\ LET r == loop_body(prototype_vecs[e], row_writes[e], batches[batch_idx[t]],
                        prototype[e].num)
     IN /\ prototype_vecs' = [prototype_vecs EXCEPT ![e] = Some(r.t)]
        /\ row_writes' = [row_writes EXCEPT ![e] = r.w]
        /\ vecs_id' = [vecs_id EXCEPT ![e] = IF r.fresh THEN @ + 1 ELSE @]
        /\ IF r.err # ""
           THEN /\ Raise(t, r.err, "build")
                /\ UNCHANGED batch_idx
           ELSE /\ batch_idx' = [batch_idx EXCEPT ![t] = @ + 1]
                /\ Goto(t, "loop")
  /\ encoder_calls' = [encoder_calls EXCEPT ![e] = @ + 1]
  /\ UNCHANGED <<prototype, prototype_inited, build_count, disk, ncalls, dist_vars,
                 config_vars, hook_vars>>

\* the dataloader is exhausted: "if world_size > 1:"
loader_done(t) ==
  LET e == eng[t] IN
  /\ pc[t] = "loop"
  /\ batch_idx[t] > Len(prototype[e].loader)
  /\ Goto(t, IF world_size > 1 THEN "barrier" ELSE "inited")
  /\ UNCHANGED <<batch_idx, disk, ncalls, engine_vars, dist_vars, config_vars, hook_vars>>

\* prepare_prototype's last line: self.prototype_inited = True
prepare_prototype_inited(t) ==
  LET e == eng[t] IN
  /\ pc[t] = "inited"
  /\ prototype_inited' = [prototype_inited EXCEPT ![e] = TRUE]
  /\ IF call[t] = "predict" THEN Goto(t, "feat")
     ELSE IF call[t] = "dump_prototype" THEN Goto(t, "save")
     ELSE Return(t)
  /\ UNCHANGED <<prototype, prototype_vecs, vecs_id, row_writes, build_count,
                 encoder_calls, disk, batch_idx, ncalls, dist_vars, config_vars, hook_vars>>

\* the rest of predict: encode the query, match it against prototype_vecs
predict_matching(t) ==
  LET e == eng[t]
      r == predict_tail(args[t], prototype_vecs[e], similarity[e], sort_ties, topk[e])
  IN
  /\ pc[t] = "feat"
  /\ IF r.err # ""
     THEN Raise(t, r.err, r.stage)
     ELSE ReturnList(t, r.out)
  /\ UNCHANGED <<batch_idx, disk, ncalls, engine_vars, dist_vars, config_vars, hook_vars>>

\* the rest of dump_prototype: torch.save(self.prototype_vecs, path)
dump_prototype_save(t) ==
  LET e == eng[t] IN
  /\ pc[t] = "save"
  /\ disk' = Some(torch_save(prototype_vecs[e]))
  /\ Return(t)
  /\ UNCHANGED <<batch_idx, ncalls, engine_vars, dist_vars, config_vars, hook_vars>>

----------------------------------------------------------------------------
(* The distributed tail of _get_prototype_from_dataloader *)

\* dist.barrier(): the rank arrives
dist_barrier(t) ==
  LET e == eng[t] IN
  /\ pc[t] = "barrier"
  /\ barrier_gen' = [barrier_gen EXCEPT ![e] = @ + 1]
  /\ Goto(t, "barrier_wait")
  /\ UNCHANGED <<batch_idx, disk, ncalls, engine_vars, reduce_sent, reduce_status,
                 config_vars, hook_vars>>

\* dist.barrier() returns once every rank has arrived
dist_barrier_pass(t) ==
  LET e == eng[t] IN
  /\ pc[t] = "barrier_wait"
  /\ \A r \in Ranks : barrier_gen[r] >= barrier_gen[e]
  /\ Goto(t, "all_reduce")
  /\ UNCHANGED <<batch_idx, disk, ncalls, engine_vars, dist_vars, config_vars, hook_vars>>

\* dist.all_reduce(self.prototype_vecs, SUM, async_op=True): the reduction is
\* queued and the call returns its work handle, which is dropped
dist_all_reduce(t) ==
  LET e == eng[t] IN
  /\ pc[t] = "all_reduce"
  /\ IF IsNone(prototype_vecs[e])
     THEN /\ Raise(t, "TypeError", "build")
          /\ UNCHANGED reduce_sent
     ELSE /\ reduce_sent' = [reduce_sent EXCEPT ![e] =
               Append(@, [id |-> vecs_id[e], t |-> Val(prototype_vecs[e])])]
          /\ Goto(t, "inited")
  /\ UNCHANGED <<batch_idx, disk, ncalls, engine_vars, barrier_gen, reduce_status,
                 config_vars, hook_vars>>

\* the sum of what the ranks 1..r handed to their g-th all_reduce
RECURSIVE ReduceSum(_, _)
ReduceSum(g, r) ==
  IF r = 1 THEN reduce_sent[1][g].t
  ELSE TensorAdd(ReduceSum(g, r - 1), reduce_sent[r][g].t)

SameShape(g) ==
  \A r \in Ranks : /\ reduce_sent[r][g].t.n = reduce_sent[1][g].t.n
                   /\ reduce_sent[r][g].t.dim = reduce_sent[1][g].t.dim

\* the queued reduction of rank e finishes in the background: the sum is
\* written into the tensor that was handed over
all_reduce_complete(e) ==
  LET g == Len(reduce_status[e]) + 1 IN
  /\ g <= Len(reduce_sent[e])
  /\ \A r \in Ranks : Len(reduce_sent[r]) >= g
  /\ SameShape(g)
  /\ prototype_vecs' =
       IF ~IsNone(prototype_vecs[e]) /\ vecs_id[e] = reduce_sent[e][g].id
       THEN [prototype_vecs EXCEPT ![e] = Some(ReduceSum(g, world_size))]
       ELSE prototype_vecs
  /\ reduce_status' = [reduce_status EXCEPT ![e] = Append(@, "done")]
  /\ UNCHANGED <<prototype, prototype_inited, vecs_id, row_writes, build_count,
                 encoder_calls, disk, pc, call, batch_idx, result, ncalls,
                 barrier_gen, reduce_sent, config_vars, args,
                 hook_vars>>

\* the queued reduction of rank e fails (a peer is unreachable): the handle
\* holds the error and nobody reads it
all_reduce_fail(e) ==
  /\ Len(reduce_status[e]) < Len(reduce_sent[e])
  /\ reduce_status' = [reduce_status EXCEPT ![e] = Append(@, "failed")]
  /\ UNCHANGED <<engine_vars, disk, pc, call, batch_idx, result, ncalls,
                 barrier_gen, reduce_sent, config_vars, args,
                 hook_vars>>

----------------------------------------------------------------------------
(* update_bn_stats and scaled_all_reduce (precise_bn_hook.py) *)

\* a statistic or a momentum, held exactly as a fraction in lowest terms
Frac(n, d) == Score(n, d)
FracAdd(a, b) == Score(a.num * b.den + b.num * a.den, a.den * b.den)
FracSub(a, b) == Score(a.num * b.den - b.num * a.den, a.den * b.den)
FracMul(a, b) == Score(a.num * b.num, a.den * b.den)
FracDiv(a, k) == Score(a.num, a.den * k)

\* bn.momentum = 1.0
FullMomentum == Frac(1, 1)

\* the norm layer at position i of model.modules(): a _BatchNorm ("bn") or a
\* GroupNorm ("gn"), with one channel; its momentum and its statistics from
\* training differ from layer to layer
Layer(kind, training, i) ==
  [kind |-> kind, training |-> training, momentum |-> Frac(i, 10),
   running_mean |-> Frac(100 + i, 1), running_var |-> Frac(200 + i, 1)]

\* the mean and the variance layer i sees on the batch d
batch_mean(d, i) == Frac(d + i, 1)
batch_var(d, i) == Frac(2 * d + i, 1)

\* what a forward pass does to a layer: a _BatchNorm in training mode moves
\* its running statistics towards the batch's by its momentum
forward_layer(l, d, i) ==
  IF l.kind = "bn" /\ l.training
  THEN [l EXCEPT
          !.running_mean = FracAdd(FracMul(FracSub(Frac(1, 1), l.momentum), @),
                                   FracMul(l.momentum, batch_mean(d, i))),
          !.running_var = FracAdd(FracMul(FracSub(Frac(1, 1), l.momentum), @),
                                  FracMul(l.momentum, batch_var(d, i)))]
  ELSE l

\* model(**data)
model_forward(layers, d) == [i \in 1..Len(layers) |-> forward_layer(layers[i], d, i)]

\* num_iter = min(num_samples // (loader.batch_size * NUM_GPUS), len(loader))
compute_num_iter(ns, bs, gpus, len) == Min(ns \div (bs * gpus), len)

\* bn_layers: the positions of the _BatchNorm modules in training mode
RECURSIVE select_bn_layers(_, _)
select_bn_layers(layers, i) ==
  IF i > Len(layers) THEN <<>>
  ELSE (IF layers[i].training /\ layers[i].kind = "bn" THEN <<i>> ELSE <<>>)
       \o select_bn_layers(layers, i + 1)

\* for bn in bn_layers: bn.momentum = m
set_momentum(layers, sel, m) ==
  [i \in 1..Len(layers) |->
     IF \E k \in 1..Len(sel) : sel[k] = i THEN [layers[i] EXCEPT !.momentum = m]
     ELSE layers[i]]

\* the last loop of update_bn_stats: the statistics are set and the momentum
\* is put back
set_bn_stats_keep_momentum(layers, sel, means, variances, moms) ==
  [i \in 1..Len(layers) |->
     IF \E k \in 1..Len(sel) : sel[k] = i
     THEN LET k == CHOOSE k \in 1..Len(sel) : sel[k] = i
          IN [layers[i] EXCEPT !.running_mean = means[k], !.running_var = variances[k]]
     ELSE layers[i]]
set_bn_stats(layers, sel, means, variances, moms) ==
  [i \in 1..Len(layers) |->
     IF \E k \in 1..Len(sel) : sel[k] = i
     THEN LET k == CHOOSE k \in 1..Len(sel) : sel[k] = i
          IN [layers[i] EXCEPT !.running_mean = means[k], !.running_var = variances[k],
                               !.momentum = moms[k]]
     ELSE layers[i]]

\* update_bn_stats up to its loop over the batches
update_bn_stats(r) ==
  LET n == compute_num_iter(num_samples, batch_size, world_size, Len(data_loader[r]))
      sel == select_bn_layers(model[r], 1)
  IN
  /\ hook_pc[r] = "idle"
  /\ model_before' = [model_before EXCEPT ![r] = model[r]]
  /\ num_iter' = [num_iter EXCEPT ![r] = n]
  /\ bn_layers' = [bn_layers EXCEPT ![r] = sel]
  /\ IF Len(sel) = 0
     THEN /\ hook_pc' = [hook_pc EXCEPT ![r] = "returned"]
          /\ UNCHANGED <<model, running_means, running_vars, momentums>>
     ELSE /\ running_means' = [running_means EXCEPT ![r] = [k \in 1..Len(sel) |-> Frac(0, 1)]]
          /\ running_vars' = [running_vars EXCEPT ![r] = [k \in 1..Len(sel) |-> Frac(0, 1)]]
          /\ momentums' = [momentums EXCEPT ![r] = [k \in 1..Len(sel) |-> model[r][sel[k]].momentum]]
          /\ model' = [model EXCEPT ![r] = set_momentum(@, sel, FullMomentum)]
          /\ hook_pc' = [hook_pc EXCEPT ![r] = IF n = 0 THEN "means" ELSE "loop"]
  /\ UNCHANGED <<data_loader, batch_size, num_samples, forwards, reductions, retriever_vars>>

\* one pass of "for data in itertools.islice(loader, num_iter)"
loop_iteration(r) ==
  LET m == model_forward(model[r], data_loader[r][forwards[r] + 1])
      sel == bn_layers[r]
  IN
  /\ hook_pc[r] = "loop"
  /\ model' = [model EXCEPT ![r] = m]
  /\ running_means' = [running_means EXCEPT ![r] =
       [k \in 1..Len(sel) |-> FracAdd(@[k], FracDiv(m[sel[k]].running_mean, num_iter[r]))]]
  /\ running_vars' = [running_vars EXCEPT ![r] =
       [k \in 1..Len(sel) |-> FracAdd(@[k], FracDiv(m[sel[k]].running_var, num_iter[r]))]]
  /\ forwards' = [forwards EXCEPT ![r] = @ + 1]
  /\ hook_pc' = [hook_pc EXCEPT ![r] = IF forwards[r] + 1 = num_iter[r] THEN "means" ELSE "loop"]
  /\ UNCHANGED <<data_loader, batch_size, num_samples, num_iter, bn_layers, momentums,
                 reductions, model_before, retriever_vars>>

\* model(**data) raises: update_bn_stats is left by the exception
loop_raises(r) ==
  /\ hook_pc[r] = "loop"
  /\ hook_pc' = [hook_pc EXCEPT ![r] = "raised"]
  /\ UNCHANGED <<model, data_loader, batch_size, num_samples, num_iter, bn_layers,
                 running_means, running_vars, momentums, forwards, reductions,
                 model_before, retriever_vars>>

\* scaled_all_reduce(tensors, NUM_GPUS) up to its waits: nothing to do for
\* one process, otherwise one reduction is queued per tensor
scaled_all_reduce(r) ==
  /\ hook_pc[r] \in {"means", "vars"}
  /\ IF world_size = 1
     THEN /\ hook_pc' = [hook_pc EXCEPT ![r] = IF @ = "means" THEN "vars" ELSE "set"]
          /\ UNCHANGED reductions
     ELSE /\ reductions' = [reductions EXCEPT ![r] =
               Append(@, IF hook_pc[r] = "means" THEN running_means[r] ELSE running_vars[r])]
          /\ hook_pc' = [hook_pc EXCEPT ![r] = IF @ = "means" THEN "means_wait" ELSE "vars_wait"]
  /\ UNCHANGED <<model, data_loader, batch_size, num_samples, num_iter, bn_layers,
                 running_means, running_vars, momentums, forwards, model_before,
                 retriever_vars>>

\* the sum over the ranks 1..q of tensor k of their g-th queued list
RECURSIVE ReducedTensor(_, _, _)
ReducedTensor(g, k, q) ==
  IF q = 0 THEN Frac(0, 1) ELSE FracAdd(ReducedTensor(g, k, q - 1), reductions[q][g][k])

\* the rest of scaled_all_reduce: the waits return once every rank has
\* queued its reductions, then each tensor is scaled by 1.0 / num_gpus
scaled_all_reduce_wait(r) ==
  LET g == Len(reductions[r])
      scaled == [k \in 1..Len(reductions[r][g]) |->
                   FracDiv(ReducedTensor(g, k, world_size), world_size)]
  IN
  /\ hook_pc[r] \in {"means_wait", "vars_wait"}
  /\ \A q \in Ranks : Len(reductions[q]) >= g
  /\ IF hook_pc[r] = "means_wait"
     THEN /\ running_means' = [running_means EXCEPT ![r] = scaled]
          /\ UNCHANGED running_vars
     ELSE /\ running_vars' = [running_vars EXCEPT ![r] = scaled]
          /\ UNCHANGED running_means
  /\ hook_pc' = [hook_pc EXCEPT ![r] = IF @ = "means_wait" THEN "vars" ELSE "set"]
  /\ UNCHANGED <<model, data_loader, batch_size, num_samples, num_iter, bn_layers,
                 momentums, forwards, reductions, model_before, retriever_vars>>

\* the end of update_bn_stats: the averaged statistics and the remembered
\* momentum are written to every layer of bn_layers
update_bn_stats_set(r) ==
  /\ hook_pc[r] = "set"
  /\ model' = [model EXCEPT ![r] =
       set_bn_stats(@, bn_layers[r], running_means[r], running_vars[r], momentums[r])]
  /\ hook_pc' = [hook_pc EXCEPT ![r] = "returned"]
  /\ UNCHANGED <<data_loader, batch_size, num_samples, num_iter, bn_layers, running_means,
                 running_vars, momentums, forwards, reductions, model_before,
                 retriever_vars>>

\* no model is handed to update_bn_stats
NoHook ==
  /\ model = <<>> /\ data_loader = <<>> /\ batch_size = 1 /\ num_samples = 1
  /\ hook_pc = <<>> /\ num_iter = <<>> /\ bn_layers = <<>>
  /\ running_means = <<>> /\ running_vars = <<>> /\ momentums = <<>>
  /\ forwards = <<>> /\ reductions = <<>> /\ model_before = <<>>

----------------------------------------------------------------------------
(* Configurations: what __init__ is given *)

\* every sequence of sample identifiers of a corpus of N items, up to L long:
\* in order or not, with or without repeats and gaps
IdSeqs(N, L) == UNION {[1..len -> 0..(N - 1)] : len \in 0..L}

NumBatches(len, bs) == (len + bs - 1) \div bs

\* the batches a dataloader of batch size bs yields for the identifiers ids,
\* the encoder answering batch b at width widths[b]
MkLoader(ids, bs, widths) ==
  [b \in 1..NumBatches(Len(ids), bs) |->
     [ids |-> SubSeq(ids, (b - 1) * bs + 1, Min(b * bs, Len(ids))), w |-> widths[b]]]

Loaders(N, L) ==
  UNION {UNION {{MkLoader(ids, bs, widths) :
                   widths \in [1..NumBatches(Len(ids), bs) -> 1..MaxWidth]} :
                bs \in 1..MaxBatch} :
         ids \in IdSeqs(N, L)}

\* the N x w database whose row s is the embedding of item s
Database(N, w) ==
  [ndim |-> 2, n |-> N, dim |-> w, rows |-> [i \in 1..N |-> extract_feat(i - 1, w)]]

Databases == {Database(N, w) : N \in 0..MaxN, w \in 1..MaxWidth}

\* a tensor that is not a matrix: the embedding of item 0 alone, shape (w,)
Vectors ==
  {[ndim |-> 1, n |-> 1, dim |-> w, rows |-> <<extract_feat(0, w)>>] : w \in 1..MaxWidth}

Source(kind, tensor, loader, num) ==
  [kind |-> kind, tensor |-> tensor, loader |-> loader, num |-> num]

TensorSources == {Source("tensor", Some(db), <<>>, 0) : db \in Databases \cup Vectors}
LoaderSources(kinds, N, L) ==
  {Source(k, None, l, N) : k \in kinds, l \in Loaders(N, L)}

\* the state __init__ leaves in each of n engines: prototype_inited = False,
\* prototype_vecs = None
InitEngineSet(ws, n, threads) ==
  /\ world_size = ws
  /\ eng = threads
  /\ prototype_inited = [e \in 1..n |-> FALSE]
  /\ prototype_vecs = [e \in 1..n |-> None]
  /\ vecs_id = [e \in 1..n |-> 0]
  /\ row_writes = [e \in 1..n |-> <<>>]
  /\ build_count = [e \in 1..n |-> 0]
  /\ encoder_calls = [e \in 1..n |-> 0]
  /\ pc = [t \in DOMAIN threads |-> "idle"]
  /\ call = [t \in DOMAIN threads |-> "none"]
  /\ batch_idx = [t \in DOMAIN threads |-> 0]
  /\ result = [t \in DOMAIN threads |-> NoResult]
  /\ ncalls = [t \in DOMAIN threads |-> 0]
  /\ args = [t \in DOMAIN threads |-> NoArgs]
  /\ barrier_gen = [e \in 1..n |-> 0]
  /\ reduce_sent = [e \in 1..n |-> <<>>]
  /\ reduce_status = [e \in 1..n |-> <<>>]

\* one engine per rank
InitEngines(ws, threads) == InitEngineSet(ws, ws, threads)

SortTies == {"ascending", "descending"}

\* the data samples a caller passes for a batch of n items: one per item,
\* each with the item's annotation and no prediction yet
CallerSamples(n) == [i \in 1..n |-> [gt |-> 100 + i, score |-> <<>>, label |-> <<>>]]

\* predict(q) and predict(q, data_samples)
PredictArgs(q) ==
  {[inputs |-> q, samples |-> None], [inputs |-> q, samples |-> Some(CallerSamples(Len(q)))]}

\* the two query embeddings of width w the callers use: the first unit
\* vector (c = 0) and the negated last one (c = 1)
QueryVec(w, c) ==
  IF c = 0 THEN [k \in 1..w |-> IF k = 1 THEN 1 ELSE 0]
  ELSE [k \in 1..w |-> IF k = w THEN 0 - 1 ELSE 0]

\* the batches of up to MaxQueries query items of one width, the two
\* embeddings alternating from either of them
Queries ==
  {[i \in 1..len |-> QueryVec(w, (first + i) % 2)] :
     len \in 0..MaxQueries, w \in 1..MaxWidth, first \in 0..1}

\* __init__'s defaults, similarity_fn = 'cosine_similarity' and topk = -1,
\* with callers that always pass the same one query item and no data samples
InitDefaults ==
  /\ topk = [e \in Ranks |-> 0 - 1]
  /\ similarity = [e \in Ranks |-> "cosine_similarity"]
  /\ sort_ties \in SortTies
  /\ inputs_pool = {[inputs |-> << <<1>> >>, samples |-> None]}

\* one engine, one caller, any source
Init ==
  /\ InitEngines(1, <<1>>)
  /\ NoHook
  /\ InitDefaults
  /\ \/ /\ prototype \in {<<Source(k, None, <<>>, 0)>> : k \in {"none", "other"}}
        /\ disk = None
     \/ /\ prototype \in {<<src>> : src \in TensorSources}
        /\ disk = None
     \/ /\ prototype = <<Source("str", None, <<>>, 0)>>
        /\ disk \in {None} \cup {Some(torch_save(Some(db))) : db \in Databases \cup Vectors}
     \/ /\ \E N \in 0..MaxN :
             prototype \in {<<src>> : src \in LoaderSources({"dict", "loader"}, N, MaxN)}
        /\ disk = None

Next ==
  \/ \E t \in Threads : predict(t)
  \/ \E t \in Threads : dump_prototype(t)
  \/ \E t \in Threads : call_prepare_prototype(t)
  \/ \E t \in Threads : prepare_prototype(t)
  \/ \E t \in Threads : get_prototype_from_dataloader(t)
  \/ \E t \in Threads : loader_batch(t)
  \/ \E t \in Threads : loader_done(t)
  \/ \E t \in Threads : prepare_prototype_inited(t)
  \/ \E t \in Threads : predict_matching(t)
  \/ \E t \in Threads : dump_prototype_save(t)

Spec == Init /\ [][Next]_vars

\* the dataloaders a well-formed corpus of N items gives: every identifier
\* once, in order, one embedding width
CorpusLoaders(N) ==
  {MkLoader([i \in 1..N |-> i - 1], bs, [b \in 1..N |-> w]) :
     bs \in 1..MaxBatch, w \in 1..MaxWidth}

\* one engine with a corpus source, MaxThreads callers
InitThreads ==
  /\ InitEngines(1, [t \in 1..MaxThreads |-> 1])
  /\ NoHook
  /\ InitDefaults
  /\ \E N \in 1..MaxN :
       prototype \in {<<Source("loader", None, l, N)>> : l \in CorpusLoaders(N)}
  /\ disk = None

SpecThreads == InitThreads /\ [][Next]_vars

\* one engine, one caller, a tensor or the corpus of MaxN items as the source,
\* any topk, any similarity_fn, and any one batch of queries, which the
\* caller passes in every predict call, with or without data samples
InitQuery ==
  /\ InitEngines(1, <<1>>)
  /\ NoHook
  /\ prototype \in
       {<<src>> : src \in TensorSources \cup
                           {Source("loader", None, l, MaxN) : l \in CorpusLoaders(MaxN)}}
  /\ disk = None
  /\ topk \in {<<k>> : k \in (0 - 1)..MaxTopk}
  /\ similarity \in {<<n>> : n \in SimilarityNames}
  /\ sort_ties \in SortTies
  /\ inputs_pool \in {PredictArgs(q) : q \in Queries}

SpecQuery == InitQuery /\ [][Next]_vars

\* two engines of two single-process programs sharing one path: the first
\* has a tensor or a well-formed corpus as its source, the second has the
\* path; one caller each
InitPersist ==
  /\ InitEngineSet(1, 2, <<1, 2>>)
  /\ NoHook
  /\ \E src \in TensorSources \cup
                 UNION {{Source("loader", None, l, N) : l \in CorpusLoaders(N)} :
                        N \in 0..MaxN} :
       prototype = <<src, Source("str", None, <<>>, 0)>>
  /\ disk = None
  /\ topk = <<0 - 1, 0 - 1>>
  /\ similarity = <<"cosine_similarity", "cosine_similarity">>
  /\ sort_ties \in SortTies
  /\ inputs_pool = {[inputs |-> << <<1>> >>, samples |-> None]}

SpecPersist == InitPersist /\ [][Next]_vars

\* the database [1, 0, -1, 0.5] of four embeddings of width 1, every value
\* doubled to keep it an integer (the cosine does not change with the scale
\* of a row)
ScenarioDatabase ==
  [ndim |-> 2, n |-> 4, dim |-> 1, rows |-> << <<2>>, <<0>>, <<0 - 2>>, <<1>> >>]

\* one engine, one caller, a well-formed corpus of 1..MaxN items or a matrix
\* of MaxN zero rows as the source, and a query item whose embedding is one
\* of the database's rows; or the database [1, 0, -1, 0.5] and the query [1]
InitSelf ==
  /\ InitEngines(1, <<1>>)
  /\ NoHook
  /\ \/ \E N \in 1..MaxN : \E l \in CorpusLoaders(N) : \E i \in 0..(N - 1) :
          /\ prototype = <<Source("loader", None, l, N)>>
          /\ inputs_pool = PredictArgs(<<extract_feat(i, l[1].w)>>)
     \/ \E w \in 1..MaxWidth :
          /\ prototype = <<Source("tensor", Some(zeros(MaxN, w)), <<>>, 0)>>
          /\ inputs_pool = PredictArgs(<<[k \in 1..w |-> 0]>>)
     \/ /\ prototype = <<Source("tensor", Some(ScenarioDatabase), <<>>, 0)>>
        /\ inputs_pool = PredictArgs(<< <<1>> >>)
  /\ disk = None
  /\ topk = <<0 - 1>>
  /\ similarity = <<"cosine_similarity">>
  /\ sort_ties \in SortTies

SpecSelf == InitSelf /\ [][Next]_vars

\* the ascending sequence of the identifiers in S
RECURSIVE Ascending(_, _, _)
Ascending(S, from, N) ==
  IF from >= N THEN <<>>
  ELSE (IF from \in S THEN <<from>> ELSE <<>>) \o Ascending(S, from + 1, N)

\* world_size ranks, one caller each; holders[s] is the set of ranks whose
\* sampler yields item s, each rank's dataloader yields its items in order
InitDist ==
  \E ws \in 2..MaxWorld, N \in 0..MaxN, bs \in 1..MaxBatch, w \in 1..MaxWidth :
    /\ InitEngines(ws, [t \in 1..ws |-> t])
    /\ NoHook
    /\ InitDefaults
    /\ \E holders \in [0..(N - 1) -> SUBSET (1..ws)] :
         prototype =
           [e \in 1..ws |->
              LET ids == Ascending({s \in 0..(N - 1) : e \in holders[s]}, 0, N)
              IN Source("loader", None, MkLoader(ids, bs, [b \in 1..N |-> w]), N)]
    /\ disk = None

NextDist ==
  \/ Next
  \/ \E t \in Threads : dist_barrier(t)
  \/ \E t \in Threads : dist_barrier_pass(t)
  \/ \E t \in Threads : dist_all_reduce(t)
  \/ \E e \in Ranks : all_reduce_complete(e)
  \/ \E e \in Ranks : all_reduce_fail(e)

SpecDist == InitDist /\ [][NextDist]_vars

\* the sample identifiers of rank e's shard
Shard(holders, e, N) == Ascending({s \in 0..(N - 1) : e \in holders[s]}, 0, N)

\* world_size ranks whose callers call prepare_prototype, batches of
\* MaxBatch items and embeddings of width MaxWidth; no query is made
InitBuild ==
  \E ws \in 2..MaxWorld, N \in 0..MaxN :
    /\ InitEngines(ws, [t \in 1..ws |-> t])
    /\ NoHook
    /\ \E holders \in [0..(N - 1) -> SUBSET (1..ws)] :
         prototype =
           [e \in 1..ws |->
              Source("loader", None,
                     MkLoader(Shard(holders, e, N), MaxBatch, [b \in 1..N |-> MaxWidth]), N)]
    /\ disk = None
    /\ topk = [e \in 1..ws |-> 0 - 1]
    /\ similarity = [e \in 1..ws |-> "cosine_similarity"]
    /\ sort_ties = "ascending"
    /\ inputs_pool = {}

\* the steps of one build per rank, in a run in which no reduction fails
NextBuild ==
  \/ \E t \in Threads : ncalls[t] = 0 /\ call_prepare_prototype(t)
  \/ \E t \in Threads : prepare_prototype(t)
  \/ \E t \in Threads : get_prototype_from_dataloader(t)
  \/ \E t \in Threads : loader_batch(t)
  \/ \E t \in Threads : loader_done(t)
  \/ \E t \in Threads : prepare_prototype_inited(t)
  \/ \E t \in Threads : dist_barrier(t)
  \/ \E t \in Threads : dist_barrier_pass(t)
  \/ \E t \in Threads : dist_all_reduce(t)
  \/ \E e \in Ranks : all_reduce_complete(e)

SpecBuild == InitBuild /\ [][NextBuild]_vars

\* the layers a model can have: each a _BatchNorm in training mode, a
\* _BatchNorm in eval mode or a GroupNorm in training mode
LayerChoices == {[kind |-> "bn", training |-> TRUE], [kind |-> "bn", training |-> FALSE],
                 [kind |-> "gn", training |-> TRUE]}
ModelLayers ==
  UNION {{[i \in 1..n |-> Layer(c[i].kind, c[i].training, i)] : c \in [1..n -> LayerChoices]} :
           n \in 0..MaxLayers}

\* every rank holds a replica of one model and its own batches, and calls
\* update_bn_stats once; the retriever is not used
InitBN ==
  \E ws \in 1..MaxWorld, len \in 0..MaxLoaderLen, layers \in ModelLayers :
    /\ InitEngineSet(ws, 0, <<>>)
    /\ prototype = <<>> /\ disk = None /\ topk = <<>> /\ similarity = <<>>
    /\ sort_ties = "ascending" /\ inputs_pool = {}
    /\ model = [r \in 1..ws |-> layers]
    /\ data_loader = [r \in 1..ws |-> [b \in 1..len |-> 10 * r + b]]
    /\ batch_size \in 1..MaxBatch
    /\ num_samples \in 1..MaxSamples
    /\ hook_pc = [r \in 1..ws |-> "idle"]
    /\ num_iter = [r \in 1..ws |-> 0]
    /\ bn_layers = [r \in 1..ws |-> <<>>]
    /\ running_means = [r \in 1..ws |-> <<>>]
    /\ running_vars = [r \in 1..ws |-> <<>>]
    /\ momentums = [r \in 1..ws |-> <<>>]
    /\ forwards = [r \in 1..ws |-> 0]
    /\ reductions = [r \in 1..ws |-> <<>>]
    /\ model_before = [r \in 1..ws |-> layers]

NextBN ==
  \/ \E r \in Ranks : update_bn_stats(r)
  \/ \E r \in Ranks : loop_iteration(r)
  \/ \E r \in Ranks : loop_raises(r)
  \/ \E r \in Ranks : scaled_all_reduce(r)
  \/ \E r \in Ranks : scaled_all_reduce_wait(r)
  \/ \E r \in Ranks : update_bn_stats_set(r)

SpecBN == InitBN /\ [][NextBN]_vars

----------------------------------------------------------------------------
(* Properties of one engine with one caller (Spec) *)

Engine(t) == eng[t]
IsLoader(e) == prototype[e].kind = "loader"

\* the sample identifiers a loader yields, in order
RECURSIVE LoaderIds(_, _)
LoaderIds(batches, b) ==
  IF b > Len(batches) THEN <<>> ELSE batches[b].ids \o LoaderIds(batches, b + 1)

\* the identifiers are unique and cover [0, N)
UniqueCover(src) ==
  LET ids == LoaderIds(src.loader, 1)
  IN /\ Len(ids) = src.num
     /\ {ids[i] : i \in 1..Len(ids)} = 0..(src.num - 1)

\* every batch has the width of the first batch
UniformWidth(src) == \A b \in 1..Len(src.loader) : src.loader[b].w = src.loader[1].w

\* the last call of t ended in an error raised by the build
BuildAborted(t) == result[t].status = "error" /\ result[t].stage = "build"

\* C1: the lazy build runs exactly once.  When the first call has returned
\* normally on an engine with a corpus source, one corpus pass has run, with
\* one encoder call per batch, and the engine is Ready; and no step of a
\* predict or dump_prototype call on a Ready engine starts a corpus pass or
\* calls the encoder on a corpus batch.
C1_LazyBuildOnce ==
  /\ [](\A t \in Threads :
          (ncalls[t] = 1 /\ pc[t] = "idle" /\ result[t].status = "ok"
             /\ IsLoader(Engine(t)))
          => /\ prototype_inited[Engine(t)]
             /\ build_count[Engine(t)] = 1
             /\ encoder_calls[Engine(t)] = Len(prototype[Engine(t)].loader))
  /\ [][\A t \in Threads :
          (prototype_inited[Engine(t)] /\ call[t] \in {"predict", "dump_prototype"})
          => /\ build_count' = build_count
             /\ encoder_calls' = encoder_calls]_vars

\* a second call has returned on a Ready engine whose corpus of MaxN items was
\* passed over once only
C1_Witness ==
  \E t \in Threads :
    /\ ncalls[t] = 2 /\ pc[t] = "idle" /\ result[t].status = "ok"
    /\ IsLoader(Engine(t)) /\ prototype_inited[Engine(t)]
    /\ UniqueCover(prototype[Engine(t)]) /\ prototype[Engine(t)].num = MaxN
    /\ build_count[Engine(t)] = 1
    /\ encoder_calls[Engine(t)] = Len(prototype[Engine(t)].loader)

\* C5: when an engine whose dataloader yields every identifier of [0, N)
\* exactly once becomes Ready, the build loop has assigned every row of the
\* database exactly once.
C5_RowsWrittenOnce ==
  [][\A e \in Ranks :
       (~prototype_inited[e] /\ prototype_inited'[e] /\ IsLoader(e)
          /\ UniqueCover(prototype[e]))
       => /\ prototype[e].num > 0 => ~IsNone(prototype_vecs'[e])
          /\ \A i \in 1..prototype[e].num : row_writes'[e][i] = 1]_vars

\* a Ready engine built from a dataloader that yields the MaxN identifiers
\* out of order, each row assigned once
C5_Witness ==
  \E e \in Ranks :
    /\ prototype_inited[e] /\ IsLoader(e) /\ UniqueCover(prototype[e])
    /\ prototype[e].num = MaxN
    /\ LoaderIds(prototype[e].loader, 1)[1] # 0
    /\ ~IsNone(prototype_vecs[e])
    /\ \A i \in 1..MaxN : row_writes[e][i] = 1

\* C6: with no source configured (prototype is None) the engine is never
\* marked Ready and every call that has returned failed in the build.
C6_NoSourceFailsBuild ==
  \A t \in Threads :
    prototype[Engine(t)].kind = "none"
    => /\ ~prototype_inited[Engine(t)]
       /\ result[t].status # "none" => BuildAborted(t)

\* C7: a source of no supported kind never leads to a Ready engine.
C7_UnknownKindNotReady ==
  \A e \in Ranks : prototype[e].kind = "other" => ~prototype_inited[e]

\* C8: an engine whose dataloader yields a batch of another embedding width
\* than the first batch's is never marked Ready.
C8_WidthMismatchNotReady ==
  \A e \in Ranks :
    (IsLoader(e) /\ ~UniformWidth(prototype[e])) => ~prototype_inited[e]

\* C10: after a call whose build aborted, the engine stays not Ready and the
\* next predict call starts no corpus pass.
C10_NoAutomaticRetry ==
  [][\A t \in Threads :
       BuildAborted(t)
       => /\ ~prototype_inited'[Engine(t)]
          /\ call'[t] = "predict" => build_count' = build_count]_vars

----------------------------------------------------------------------------
(* Properties of several callers of one engine (SpecThreads) *)

BuildPcs == {"prepare", "loader", "loop", "barrier", "barrier_wait", "all_reduce",
             "inited"}

\* thread t is inside prepare_prototype
InBuild(t) == pc[t] \in BuildPcs

\* C2: of the callers of predict on one engine, at most one is inside the
\* build at any time: a caller arriving during a build starts no second one.
C2_SingleBuild ==
  \A e \in Ranks :
    Cardinality({t \in Threads : eng[t] = e /\ call[t] = "predict" /\ InBuild(t)}) <= 1

----------------------------------------------------------------------------
(* Properties of the distributed build (SpecDist) *)

\* the latest reduction rank e queued has finished, with the sum written
ReductionDone(e) ==
  /\ Len(reduce_sent[e]) >= 1
  /\ Len(reduce_status[e]) = Len(reduce_sent[e])
  /\ reduce_status[e][Len(reduce_status[e])] = "done"

\* a reduction of rank e failed, or e's all_reduce call itself raised
ReductionFailed(e) ==
  \/ \E g \in 1..Len(reduce_status[e]) : reduce_status[e][g] = "failed"
  \/ \E t \in Threads : eng[t] = e /\ result[t] = Error("TypeError", "build")

\* every item of the corpus is in exactly one rank's shard
DisjointShards ==
  \A s \in 0..(prototype[1].num - 1) :
    Cardinality({e \in Ranks :
                   \E i \in 1..Len(LoaderIds(prototype[e].loader, 1)) :
                     LoaderIds(prototype[e].loader, 1)[i] = s}) = 1

\* the batches of all shards, one after the other
RECURSIVE WholeCorpus(_)
WholeCorpus(r) ==
  IF r = 0 THEN <<>> ELSE WholeCorpus(r - 1) \o prototype[r].loader

\* the database a single worker builds from the whole corpus
SingleWorkerDatabase == build_from(None, <<>>, WholeCorpus(world_size), 1, prototype[1].num).vecs

\* C3: with more than one worker, a worker is Ready only after the sum
\* reduction has completed on it.
C3_ReadyAfterReduction ==
  \A e \in Ranks :
    (world_size > 1 /\ IsLoader(e) /\ prototype_inited[e]) => ReductionDone(e)

\* C4: over disjoint shards, with no failure anywhere, the database of a
\* Ready worker that is not rebuilding equals the single worker's database.
C4_ShardingInvariance ==
  \A e \in Ranks :
    (/\ world_size > 1 /\ DisjointShards
     /\ \A r \in Ranks : ~ReductionFailed(r)
     /\ \A t \in Threads : ~InBuild(t) /\ result[t].status # "error"
     /\ prototype_inited[e])
    => prototype_vecs[e] = SingleWorkerDatabase

\* C9: when the reduction has failed on some worker, no worker is Ready.
C9_ReductionFailureFatal ==
  (\E r \in Ranks : ReductionFailed(r)) => \A e \in Ranks : ~prototype_inited[e]

----------------------------------------------------------------------------
(* Properties of calls on a Ready engine (Spec) *)

\* C11: prepare_prototype on a Ready engine is a no-op: no step of the call
\* starts a corpus pass, calls the encoder, writes a row or changes the
\* database or the Ready flag.
C11_PrepareIdempotent ==
  [][\A t \in Threads :
       (prototype_inited[Engine(t)] /\ call[t] = "prepare_prototype")
       => UNCHANGED <<prototype_inited, prototype_vecs, row_writes, build_count,
                      encoder_calls>>]_vars

----------------------------------------------------------------------------
(* Properties of queries on one engine (SpecQuery) *)

ReadCalls == {"predict", "dump_prototype"}

Predicted(t) == pc[t] = "idle" /\ result[t].status = "ok" /\ result[t].args # NoArgs

\* what predict returns on t's engine for the query item q alone
Alone(t, q) ==
  predict_tail([inputs |-> <<q>>, samples |-> None], prototype_vecs[Engine(t)],
               similarity[Engine(t)], sort_ties, topk[Engine(t)]).out[1]

\* C13: predict returns one result per input item, in input order: result i
\* carries the scores and the indices of input item i, and is the caller's
\* i-th data sample when data samples were passed, a new one otherwise.
C13_OneResultPerInput ==
  \A t \in Threads :
    Predicted(t)
    => LET a == result[t].args
           out == result[t].out
       IN /\ Len(out) = Len(a.inputs)
          /\ \A i \in 1..Len(out) :
               LET alone == Alone(t, a.inputs[i])
               IN /\ out[i].score = alone.score
                  /\ out[i].label = alone.label
                  /\ out[i].gt = IF IsNone(a.samples) THEN 0 ELSE Val(a.samples)[i].gt

\* predict has filled the caller's MaxQueries data samples, the first two
\* with different scores over MaxN prototypes
C13_Witness ==
  \E t \in Threads :
    /\ Predicted(t)
    /\ ~IsNone(result[t].args.samples)
    /\ Len(result[t].out) = MaxQueries
    /\ Len(result[t].out[1].score) = MaxN
    /\ result[t].out[1].score # result[t].out[2].score

\* the database of t's engine
Db(t) == Val(prototype_vecs[Engine(t)])

\* C14: for every query item matching returns two parallel sequences of
\* length N: the indices are a permutation of [0, N), scores[j] is the
\* similarity of the query and the prototype indices[j], and the scores do
\* not increase.  (Seen in what predict returns with topk = -1.)
C14_RankingOfAllPrototypes ==
  \A t \in Threads :
    (Predicted(t) /\ topk[Engine(t)] = 0 - 1)
    => \A i \in 1..Len(result[t].out) :
         LET score == result[t].out[i].score
             label == result[t].out[i].label
             q == result[t].args.inputs[i]
             fn == similarity_fn(similarity[Engine(t)]).fn
         IN /\ Len(score) = Db(t).n
            /\ Len(label) = Db(t).n
            /\ {label[j] : j \in 1..Len(label)} = 0..(Db(t).n - 1)
            /\ \A j \in 1..Len(label) :
                 score[j] = Similarity(fn, q, Db(t).rows[label[j] + 1])
            /\ \A j \in 1..(Len(score) - 1) : ~ScoreLess(score[j], score[j + 1])

\* a query over MaxN prototypes whose best match is not prototype 0 and
\* scores strictly higher than the second
C14_Witness ==
  \E t \in Threads :
    /\ Predicted(t) /\ topk[Engine(t)] = 0 - 1
    /\ Len(result[t].out) >= 1
    /\ Len(result[t].out[1].score) = MaxN
    /\ result[t].out[1].label[1] # 0
    /\ ScoreLess(result[t].out[1].score[2], result[t].out[1].score[1])

\* C15: prototypes of equal score appear in ascending order of their index.
C15_TiesByAscendingIndex ==
  \A t \in Threads :
    (Predicted(t) /\ topk[Engine(t)] = 0 - 1)
    => \A i \in 1..Len(result[t].out) :
         LET score == result[t].out[i].score
             label == result[t].out[i].label
         IN \A j \in 1..(Len(score) - 1) :
              score[j] = score[j + 1] => label[j] < label[j + 1]

FullRanking(t, q) ==
  matching(<<q>>, prototype_vecs[Engine(t)], similarity[Engine(t)], sort_ties).sorted[1]

\* C16: with topk = -1 a result holds the full ranking of the N prototypes;
\* with topk = k >= 0 it holds exactly the first min(k, N) entries of it, so
\* a topk above N gives N entries and no error.
C16_TopkTruncation ==
  \A t \in Threads :
    Predicted(t)
    => \A i \in 1..Len(result[t].out) :
         LET full == FullRanking(t, result[t].args.inputs[i])
             k == topk[Engine(t)]
             len == IF k = 0 - 1 THEN Db(t).n ELSE Min(k, Db(t).n)
         IN /\ Len(full.values) = Db(t).n
            /\ result[t].out[i].score = SubSeq(full.values, 1, len)
            /\ result[t].out[i].label = SubSeq(full.indices, 1, len)

\* predict has returned the whole ranking of MaxN prototypes on an engine
\* whose topk is larger than MaxN
C16_Witness ==
  \E t \in Threads :
    /\ Predicted(t)
    /\ Db(t).n = MaxN
    /\ topk[Engine(t)] > MaxN
    /\ Len(result[t].out) >= 1
    /\ Len(result[t].out[1].label) = MaxN

\* C18: an engine configured with an unsupported similarity name runs no
\* build and becomes Ready never, and no call on it fails in matching: the
\* name is rejected before any call.
C18_SimilarityRejectedAtSetup ==
  \A t \in Threads :
    similarity[Engine(t)] \notin {"cosine_similarity", "callable"}
    => /\ ~prototype_inited[Engine(t)]
       /\ ~(result[t].status = "error" /\ result[t].stage = "similarity")

----------------------------------------------------------------------------
(* Properties of a database given as a tensor or a file (Spec) *)

\* the object engine e is given as its database: the tensor, or what the
\* file holds; None when there is neither
Supplied(e) ==
  IF prototype[e].kind = "tensor" THEN prototype[e].tensor
  ELSE IF prototype[e].kind = "str" /\ ~IsNone(disk) THEN torch_load(Val(disk))
  ELSE None

\* a tensor that is not 2-dimensional, or has no rows
NotAMatrix(o) == ~IsNone(o) /\ (Val(o).ndim # 2 \/ Val(o).n = 0)

\* C19: an engine whose tensor or file is not a 2-dimensional, non-empty
\* matrix is never marked Ready.
C19_SuppliedMatrixValidated ==
  \A e \in Ranks : NotAMatrix(Supplied(e)) => ~prototype_inited[e]

----------------------------------------------------------------------------
(* Properties of the round trip through a file (SpecPersist) *)

Engines == DOMAIN prototype

\* engine a holds a database and no caller is rebuilding it
HoldsDatabase(a) ==
  /\ prototype_inited[a]
  /\ ~IsNone(prototype_vecs[a])
  /\ \A t \in Threads : eng[t] = a => ~InBuild(t)

----------------------------------------------------------------------------
(* Properties of a query that is a row of the database (SpecSelf) *)

\* the cosine 1
One == Score(1, 1)

\* the rows of t's database that equal the query embedding q
SelfRows(t, q) == {i \in 1..Db(t).n : Db(t).rows[i] = q}

\* the rows of t's database whose cosine with q is 1
ParallelRows(t, q) ==
  {i \in 1..Db(t).n : Similarity("cosine_similarity", q, Db(t).rows[i]) = One}

\* C21, as stated: on an engine built from a well-formed corpus, a query
\* whose embedding equals row i gets index i first, with cosine 1.
C21_SelfMatchFirst ==
  \A t \in Threads :
    (Predicted(t) /\ IsLoader(Engine(t)))
    => \A x \in 1..Len(result[t].out) :
         \A i \in SelfRows(t, result[t].args.inputs[x]) :
           /\ result[t].out[x].label[1] = i - 1
           /\ result[t].out[x].score[1] = One

\* C21, amended: a query whose embedding equals a nonzero row i gets cosine 1
\* as its first score, index i is ranked with cosine 1, and index i is first
\* when no other row has cosine 1 with the query.
C21_SelfMatchAmongBest ==
  \A t \in Threads :
    Predicted(t)
    => \A x \in 1..Len(result[t].out) :
         LET q == result[t].args.inputs[x]
             score == result[t].out[x].score
             label == result[t].out[x].label
         IN \A i \in SelfRows(t, q) :
              Dot(q, q) # 0
              => /\ score[1] = One
                 /\ \E j \in 1..Len(label) : label[j] = i - 1 /\ score[j] = One
                 /\ ParallelRows(t, q) = {i} => label[1] = i - 1

\* the last of MaxN rows of width MaxWidth, no other row parallel to it, has
\* been queried and is ranked first
C21_Witness ==
  \E t \in Threads :
    /\ Predicted(t)
    /\ Db(t).n = MaxN /\ Db(t).dim = MaxWidth
    /\ Len(result[t].out) = 1
    /\ SelfRows(t, result[t].args.inputs[1]) = {MaxN}
    /\ ParallelRows(t, result[t].args.inputs[1]) = {MaxN}
    /\ result[t].out[1].label[1] = MaxN - 1
    /\ result[t].out[1].score[1] = One

\* C22: for the database [1, 0, -1, 0.5] and the query [1] the scores are
\* 1, 1, 0, -1 (the zero prototype scores 0) and the indices are 0, 3, 1, 2
\* (the two prototypes of score 1 in ascending index order).
C22_ScenarioRanking ==
  \A t \in Threads :
    (Predicted(t) /\ Db(t) = ScenarioDatabase /\ result[t].args.inputs = << <<1>> >>)
    => /\ result[t].out[1].score = <<One, One, Score(0, 1), Score(0 - 1, 1)>>
       /\ result[t].out[1].label = <<0, 3, 1, 2>>

----------------------------------------------------------------------------
(* Properties of one build per rank (SpecBuild) *)

\* the set of sample identifiers rank e's dataloader yields
ShardIds(e) ==
  {LoaderIds(prototype[e].loader, 1)[i] : i \in 1..Len(LoaderIds(prototype[e].loader, 1))}

\* the positions of a caller between the end of the loop and the reduction
ReductionPcs == {"barrier", "barrier_wait", "all_reduce"}

\* C23: when a worker that has allocated its buffer enters the reduction,
\* the buffer has N rows, the rows of its shard's identifiers hold their
\* embeddings, and every other row is zero and was never written.
C23_OnlyShardRowsWritten ==
  \A t \in Threads :
    (pc[t] \in ReductionPcs /\ ~IsNone(prototype_vecs[Engine(t)]))
    => LET e == Engine(t)
           T == Val(prototype_vecs[e])
       IN /\ T.n = prototype[e].num
          /\ \A s \in 0..(T.n - 1) :
               IF s \in ShardIds(e)
               THEN T.rows[s + 1] = extract_feat(s, T.dim)
               ELSE /\ T.rows[s + 1] = [k \in 1..T.dim |-> 0]
                    /\ row_writes[e][s + 1] = 0

\* a worker is about to call all_reduce with a buffer of MaxN rows of which
\* its shard filled the last only
C23_Witness ==
  \E t \in Threads :
    /\ pc[t] = "all_reduce"
    /\ ~IsNone(prototype_vecs[Engine(t)])
    /\ Val(prototype_vecs[Engine(t)]).n = MaxN
    /\ ShardIds(Engine(t)) = {MaxN - 1}
    /\ Val(prototype_vecs[Engine(t)]).rows[1] = [k \in 1..MaxWidth |-> 0]
    /\ Val(prototype_vecs[Engine(t)]).rows[MaxN] = extract_feat(MaxN - 1, MaxWidth)

----------------------------------------------------------------------------
(* Properties of the corpus pass of one engine (Spec) *)

\* the database the set S of identifiers of a corpus of N items gives at
\* width w: the embedding of s at row s, zero rows elsewhere
DatabaseOf(S, N, w) ==
  [ndim |-> 2, n |-> N, dim |-> w,
   rows |-> [i \in 1..N |-> IF i - 1 \in S THEN extract_feat(i - 1, w)
                                            ELSE [k \in 1..w |-> 0]]]

\* no caller of engine e is inside prepare_prototype
Settled(e) == \A t \in Threads : eng[t] = e => ~InBuild(t)

\* C24: the database a corpus pass leaves depends on the set of identifiers
\* the dataloader yields only, whatever their order and their grouping into
\* batches: row s holds the embedding of identifier s.
C24_OrderAndBatchingIrrelevant ==
  \A e \in Ranks :
    (/\ IsLoader(e) /\ prototype_inited[e] /\ Settled(e)
     /\ UniformWidth(prototype[e])
     /\ ShardIds(e) # {})
    => prototype_vecs[e] =
         Some(DatabaseOf(ShardIds(e), prototype[e].num, prototype[e].loader[1].w))

\* a Ready engine built from a dataloader that yields the MaxN identifiers
\* in descending order, one per batch, at width MaxWidth
C24_Witness ==
  \E e \in Ranks :
    /\ IsLoader(e) /\ prototype_inited[e] /\ Settled(e)
    /\ prototype[e].num = MaxN
    /\ Len(prototype[e].loader) = MaxN
    /\ \A b \in 1..MaxN : prototype[e].loader[b] = [ids |-> <<MaxN - b>>, w |-> MaxWidth]
    /\ prototype_vecs[e] = Some(Database(MaxN, MaxWidth))

SupportedKinds == {"tensor", "str", "loader"}

\* C25: a Ready engine with a tensor, a file or a dataloader as its source
\* holds a database: prototype_vecs is a matrix, and for a dataloader source
\* it has one row per item of the corpus, each written by the build.
C25_ReadyHoldsDatabase ==
  \A e \in Ranks :
    (prototype_inited[e] /\ prototype[e].kind \in SupportedKinds)
    => /\ ~IsNone(prototype_vecs[e])
       /\ Val(prototype_vecs[e]).ndim = 2
       /\ IsLoader(e)
          => /\ Val(prototype_vecs[e]).n = prototype[e].num
             /\ \A i \in 1..prototype[e].num : row_writes[e][i] >= 1

----------------------------------------------------------------------------
(* Properties of the reduction over the shards (SpecBuild) *)

\* the number of ranks whose shard holds item s
Holders(s) == Cardinality({r \in Ranks : s \in ShardIds(r)})

\* C26: once the sum reduction has completed on a rank, row s of its
\* database is the embedding of item s times the number of ranks whose shard
\* holds s: doubled for an item in two shards, zero for an item in none.
C26_ReducedRowCountsHolders ==
  \A e \in Ranks :
    (ReductionDone(e) /\ ~IsNone(prototype_vecs[e]))
    => LET T == Val(prototype_vecs[e]) IN
       \A s \in 0..(T.n - 1) :
         T.rows[s + 1] = [k \in 1..T.dim |-> Holders(s) * extract_feat(s, T.dim)[k]]

\* the reduction has completed on a rank of a corpus of MaxN items whose
\* item 0 is in two shards and whose last item is in none
C26_Witness ==
  \E e \in Ranks :
    /\ ReductionDone(e) /\ ~IsNone(prototype_vecs[e])
    /\ prototype[e].num = MaxN
    /\ Holders(0) = 2 /\ Holders(MaxN - 1) = 0
    /\ Val(prototype_vecs[e]).rows[1] = [k \in 1..MaxWidth |-> 2 * extract_feat(0, MaxWidth)[k]]
    /\ Val(prototype_vecs[e]).rows[MaxN] = [k \in 1..MaxWidth |-> 0]

\* rank e holds a database of one row per item of the corpus, MaxWidth wide
HoldsFullDatabase(e) ==
  /\ ~IsNone(prototype_vecs[e])
  /\ Val(prototype_vecs[e]).ndim = 2
  /\ Val(prototype_vecs[e]).n = prototype[e].num
  /\ Val(prototype_vecs[e]).dim = MaxWidth

\* C27: the distributed build terminates on every rank: no caller fails,
\* and when no step of the build remains every rank, one with an empty
\* shard included, is Ready and holds the N x C database.
C27_EveryWorkerFinishes ==
  /\ \A t \in Threads : ~BuildAborted(t)
  /\ (~ENABLED NextBuild)
     => \A e \in Ranks : prototype_inited[e] /\ HoldsFullDatabase(e)

----------------------------------------------------------------------------
(* Properties of an empty query batch (SpecQuery) *)

\* caller t is in predict, past the build, with a batch of no query item, on
\* an engine that holds a database and a similarity function it accepts
EmptyBatch(t) ==
  /\ pc[t] = "feat" /\ args[t].inputs = <<>>
  /\ ~IsNone(prototype_vecs[Engine(t)])
  /\ similarity_fn(similarity[Engine(t)]).err = ""

\* C28: predict on a batch of no query item returns the empty list, for
\* every value of topk.
C28_EmptyBatchEmptyResult ==
  [][\A t \in Threads :
       (EmptyBatch(t) /\ pc'[t] = "idle")
       => result'[t].status = "ok" /\ result'[t].out = <<>>]_vars

----------------------------------------------------------------------------
(* Properties of update_bn_stats (SpecBN) *)

Selected(r, i) == \E k \in 1..Len(bn_layers[r]) : bn_layers[r][k] = i

\* rank r is inside update_bn_stats, past the point where it set the momentum
Updating(r) == hook_pc[r] \in {"loop", "means", "means_wait", "vars", "vars_wait", "set"}

\* C29: when update_bn_stats has returned every layer's momentum is what it
\* was before the call; it is 1.0, on the layers of bn_layers only, while the
\* call is updating; and with no _BatchNorm layer in training mode the call
\* changes nothing in the model and queues no reduction.
C29_MomentumRestored ==
  \A r \in Ranks :
    /\ hook_pc[r] = "returned"
       => /\ \A i \in 1..Len(model[r]) : model[r][i].momentum = model_before[r][i].momentum
          /\ Len(bn_layers[r]) = 0 => (model[r] = model_before[r] /\ reductions[r] = <<>>)
    /\ Updating(r)
       => \A i \in 1..Len(model[r]) :
            model[r][i].momentum =
              IF Selected(r, i) THEN FullMomentum ELSE model_before[r][i].momentum

\* a rank of two has returned from a call that ran MaxLoaderLen batches over
\* a model whose MaxLayers layers are all _BatchNorm in training mode, after
\* two reductions, with the momentum of before the call on every layer
C29_Witness ==
  \E r \in Ranks :
    /\ world_size = 2 /\ hook_pc[r] = "returned"
    /\ Len(bn_layers[r]) = MaxLayers
    /\ forwards[r] = MaxLoaderLen
    /\ Len(reductions[r]) = 2
    /\ \A i \in 1..MaxLayers : model[r][i].momentum = Frac(i, 10)

\* C30: a call whose num_iter is 0 runs no batch and leaves the running mean
\* and the running variance of every layer as they were before the call.
C30_ZeroIterationsKeepStats ==
  \A r \in Ranks :
    (hook_pc[r] = "returned" /\ num_iter[r] = 0)
    => /\ forwards[r] = 0
       /\ \A i \in 1..Len(model[r]) :
            /\ model[r][i].running_mean = model_before[r][i].running_mean
            /\ model[r][i].running_var = model_before[r][i].running_var

====
